---------------------------- MODULE Spec2Model ----------------------------
(***************************************************************************)
(* Model of src/main.py: one POST request that carries channel_id          *)
(* (do_post), the comment download it runs (execute_job, list_comments)    *)
(* and the response it builds.  The comment API, the environment variable  *)
(* LIMIT, the posted form and the file form.html are the environment.      *)
(*                                                                         *)
(* Text is modelled character by character: a string is a sequence of      *)
(* one-character tokens, so that str.replace, str.format and the text-mode *)
(* temporary file act on characters as they do in the program.             *)
(***************************************************************************)
EXTENDS Integers, Sequences, FiniteSets, TLC

(***************************************************************************)
(* Bounds of the model.                                                    *)
(***************************************************************************)
\* largest value of the environment variable LIMIT that is explored
MaxLimit == 1
\* largest number of items in one page of the API
MaxItems == 2

(***************************************************************************)
(* Characters and values.                                                  *)
(***************************************************************************)
CR        == "CR"
LF        == "LF"
DQUOTE    == "DQ"
COMMA     == ","
BACKSLASH == "BS"

\* Python's None
None == "None"
\* a request parameter, form field or value that is not there
Absent == "absent"

Tokens == {"T1", "T2"}
ErrorStatus == {403, 404}
ErrorBodies == {"quotaExceeded"}
\* values of LIMIT: a negative one, zero, positive ones, and one int() rejects
LimitValues == { [set |-> TRUE, value |-> n] : n \in -1 .. MaxLimit }
                 \cup { [set |-> FALSE, value |-> 0] }
\* the posted form: channel_id is there, access_token may be missing
Forms == { [channel_id |-> "UC1", access_token |-> t] : t \in {"tok", Absent} }

Authors == { <<"a">>, <<"a", LF>>, <<CR, "a">> }
Texts   == { <<"x">>, <<"x", CR, LF, "y">> }
Comments == { [publishedAt |-> <<"d">>, authorDisplayName |-> a, textOriginal |-> t] :
                a \in Authors, t \in Texts }

RECURSIVE SeqsUpTo(_, _)
SeqsUpTo(S, n) ==
  IF n = 0 THEN { <<>> }
  ELSE LET shorter == SeqsUpTo(S, n - 1)
       IN  shorter \cup { Append(s, x) : s \in { t \in shorter : Len(t) = n - 1 }, x \in S }

\* the 'items' lists a page can carry
Pages == SeqsUpTo(Comments, MaxItems)

(***************************************************************************)
(* String functions of the program.                                        *)
(***************************************************************************)
\* str.replace(old, new) for a one-character old
RECURSIVE Replace(_, _, _)
Replace(s, old, new) ==
  IF s = <<>> THEN <<>>
  ELSE (IF Head(s) = old THEN new ELSE <<Head(s)>>) \o Replace(Tail(s), old, new)

\* line 200: snippet["textOriginal"].replace("\r", "").replace("\n", "\\n")
EscapeText(t) == Replace(Replace(t, CR, <<>>), LF, <<BACKSLASH, "n">>)

\* line 12 and line 201: RECORD_FORMAT.format(publishedAt, authorDisplayName, text)
RECORD_FORMAT(p, a, t) ==
  <<DQUOTE>> \o p \o <<DQUOTE, COMMA, DQUOTE>> \o a \o <<DQUOTE, COMMA, DQUOTE>> \o t
     \o <<DQUOTE, LF>>

\* os.linesep of the platform the function runs on (POSIX)
LineSep == <<LF>>

\* f.write on a text-mode file opened with newline=None: "\n" becomes os.linesep
TextWrite(s) == Replace(s, LF, LineSep)

\* fp.read() on a text-mode file opened with newline=None (universal newlines):
\* "\r\n" and a lone "\r" are read as "\n"
RECURSIVE TextRead(_)
TextRead(s) ==
  IF s = <<>> THEN <<>>
  ELSE IF Head(s) = CR
       THEN IF Len(s) >= 2 /\ s[2] = LF
            THEN <<LF>> \o TextRead(Tail(Tail(s)))
            ELSE <<LF>> \o TextRead(Tail(s))
       ELSE <<Head(s)>> \o TextRead(Tail(s))

\* WriteItems with count += 1 missed for the last item of the page
RECURSIVE WriteItemsMiscount(_, _, _)
WriteItemsMiscount(f, items, count) ==
  IF items = <<>> THEN [f |-> f, count |-> count]
  ELSE LET snippet == Head(items)
           text    == EscapeText(snippet.textOriginal)
           record  == RECORD_FORMAT(snippet.publishedAt, snippet.authorDisplayName, text)
       IN  WriteItemsMiscount(f \o TextWrite(record), Tail(items),
                              IF Tail(items) = <<>> THEN count ELSE count + 1)

\* lines 198-202: the loop over result['items'], writing one record per item
RECURSIVE WriteItems(_, _, _)
WriteItems(f, items, count) ==
  IF items = <<>> THEN [f |-> f, count |-> count]
  ELSE LET snippet == Head(items)
           text    == EscapeText(snippet.textOriginal)
           record  == RECORD_FORMAT(snippet.publishedAt, snippet.authorDisplayName, text)
       IN  WriteItems(f \o TextWrite(record), Tail(items), count + 1)

(***************************************************************************)
(* Values of the program.                                                  *)
(***************************************************************************)
NoResp == [status |-> 0, items |-> <<>>, next |-> Absent, text |-> ""]
NoExc  == [type |-> "none", code |-> 0, text |-> ""]
NoRet  == [token |-> None, count |-> 0]

\* what the API can answer: 200 with a page, or an error status with a body.
\* A page is well formed (it has 'items', each with its snippet); its
\* nextPageToken is a token, is missing (Absent) or is JSON null (None).
Responses ==
  { [status |-> 200, items |-> i, next |-> n, text |-> ""] :
      i \in Pages, n \in Tokens \cup {Absent, None} }
    \cup { [status |-> c, items |-> <<>>, next |-> Absent, text |-> b] :
             c \in ErrorStatus, b \in ErrorBodies }

\* lines 14-21: APIException(code, text)
APIException(code, text) == [type |-> "APIException", code |-> code, text |-> text]

\* line 21 and line 72: str(e)
ExcMessage(e) ==
  IF e.type = "APIException"
  THEN <<"status:", e.code, "message", e.text>>
  ELSE <<e.type, e.text>>

\* line 64: make_response() with no arguments: an empty body and the framework's
\* default Content-Type
DefaultContentType == "text/html; charset=utf-8"
EmptyResponse ==
  [kind |-> "empty", text |-> <<>>, message |-> <<>>,
   contentType |-> DefaultContentType, disposition |-> Absent]

\* line 68: "attachment; filename=comment_{}.csv".format(channel_id)
Attachment(channel_id) == <<"attachment; filename=comment_", channel_id, ".csv">>

\* PageTokenParam that never sets pageToken
PageTokenParamDropped(tok) == Absent

\* lines 190-192: the pageToken parameter of the request
PageTokenParam(tok) == IF ~(tok = None) THEN tok ELSE Absent

\* line 197: result['nextPageToken'] if 'nextPageToken' in result else None
NextPageToken(result) == IF result.next # Absent THEN result.next ELSE None

\* LoopToken letting one record more than the limit pass
LoopTokenOffByOne(next_token, total, lim) ==
  IF total <= lim + 1 THEN next_token.token ELSE None

\* LoopToken comparing with < instead of <=
LoopTokenStrict(next_token, total, lim) == IF total < lim THEN next_token.token ELSE None

\* line 166: next_token['token'] if total_count <= limit else None
LoopToken(next_token, total, lim) == IF total <= lim THEN next_token.token ELSE None

VARIABLES
  pc,           \* where do_post is
  form,         \* request.form
  limitEnv,     \* the environment variable LIMIT
  limit,        \* execute_job: limit
  total_count,  \* execute_job: total_count
  token,        \* execute_job: token
  fpOpen,       \* the temporary file exists
  fp,           \* the temporary file's content
  inflight,     \* requests sent to the API and not answered yet
  resp,         \* list_comments: response
  ret,          \* execute_job: next_token, the dictionary list_comments returned
  result,       \* what execute_job returned
  exc,          \* the exception being raised
  response,     \* do_post: response
  received,     \* history: the comments of every 200 page the API delivered, in order
  lastPage,     \* history: the last response the API delivered
  fpBefore,     \* history: the file's content when the last request was sent
  sawError      \* history: the API answered with a status other than 200

vars == <<pc, form, limitEnv, limit, total_count, token, fpOpen, fp, inflight, resp, ret,
          result, exc, response, received, lastPage, fpBefore, sawError>>

job    == <<limit, total_count, token, fpOpen, fp, ret, result>>
net    == <<inflight, resp>>
hist   == <<received, lastPage, fpBefore, sawError>>
inputs == <<form, limitEnv>>

Init ==
  /\ pc = "do_post"
  /\ form \in Forms
  /\ limitEnv \in LimitValues
  /\ limit = 0
  /\ total_count = 0
  /\ token = None
  /\ fpOpen = FALSE
  /\ fp = <<>>
  /\ inflight = <<>>
  /\ resp = NoResp
  /\ ret = NoRet
  /\ result = [returned |-> FALSE, text |-> <<>>]
  /\ exc = NoExc
  /\ response = EmptyResponse
  /\ received = <<>>
  /\ lastPage = NoResp
  /\ fpBefore = <<>>
  /\ sawError = FALSE

\* lines 63-66 and 155-162: do_post makes the response and calls execute_job, which
\* reads the form and LIMIT and opens the temporary file
ExecuteJobStart ==
  /\ pc = "do_post"
  /\ response' = EmptyResponse
  /\ IF form.access_token = Absent
     THEN /\ exc' = [type |-> "KeyError", code |-> 0, text |-> "access_token"]
          /\ pc' = "except"
          /\ UNCHANGED job
     ELSE IF ~limitEnv.set
     THEN /\ exc' = [type |-> "TypeError", code |-> 0, text |-> "int"]
          /\ pc' = "except"
          /\ UNCHANGED job
     ELSE /\ limit' = limitEnv.value
          /\ total_count' = 0
          /\ fpOpen' = TRUE
          /\ fp' = <<>>
          /\ token' = None
          /\ pc' = "call"
          /\ UNCHANGED <<exc, ret, result>>
  /\ UNCHANGED <<net, hist, inputs>>

\* lines 164 and 188-193: list_comments builds the request and sends it
SendRequest ==
  /\ pc = "call"
  /\ inflight' = Append(inflight, [pageToken |-> PageTokenParam(token)])
  /\ fpBefore' = fp
  /\ pc' = "wait"
  /\ UNCHANGED <<job, resp, exc, response, received, lastPage, sawError, inputs>>

\* line 193: the API answers the request
ApiRespond ==
  /\ pc = "wait"
  /\ inflight # <<>>
  /\ \E r \in Responses :
       /\ resp' = r
       /\ lastPage' = r
       /\ received' = IF r.status = 200 THEN received \o r.items ELSE received
       /\ sawError' = (sawError \/ r.status # 200)
  /\ inflight' = Tail(inflight)
  /\ pc' = "recv"
  /\ UNCHANGED <<job, exc, response, fpBefore, inputs>>

\* lines 194-204: a 200 response: the items are written and the dictionary returned
ListCommentsOk ==
  /\ pc = "recv"
  /\ resp.status = 200
  /\ LET next_page_token == NextPageToken(resp)
         written == WriteItems(fp, resp.items, 0)
     IN  /\ fp' = written.f
         /\ ret' = [token |-> next_page_token, count |-> written.count]
  /\ resp' = NoResp
  /\ pc' = "loop"
  /\ UNCHANGED <<limit, total_count, token, fpOpen, result, inflight, exc, response,
                 hist, inputs>>

\* ListCommentsRaise that asks for the page again instead of raising
RetryOnError ==
  /\ pc = "recv"
  /\ resp.status # 200
  /\ resp' = NoResp
  /\ pc' = "call"
  /\ UNCHANGED <<job, inflight, exc, response, hist, inputs>>

\* lines 205-206 and 161: any other status raises APIException, which leaves
\* execute_job through the with block: the temporary file is closed and deleted
ListCommentsRaise ==
  /\ pc = "recv"
  /\ resp.status # 200
  /\ exc' = APIException(resp.status, resp.text)
  /\ fpOpen' = FALSE
  /\ fp' = <<>>
  /\ resp' = NoResp
  /\ pc' = "except"
  /\ UNCHANGED <<limit, total_count, token, ret, result, inflight, response, hist, inputs>>

\* lines 165-169: the count is added, the next token chosen, and the file read
\* back and returned when there is none
LoopStep ==
  /\ pc = "loop"
  /\ LET total == total_count + ret.count
         tok   == LoopToken(ret, total, limit)
     IN  /\ total_count' = total
         /\ token' = tok
         /\ IF tok = None
            THEN /\ result' = [returned |-> TRUE, text |-> TextRead(fp)]
                 /\ fpOpen' = FALSE
                 /\ fp' = <<>>
                 /\ pc' = "returned"
            ELSE /\ pc' = "call"
                 /\ UNCHANGED <<result, fpOpen, fp>>
  /\ UNCHANGED <<limit, ret, net, exc, response, hist, inputs>>

\* lines 66-68: the CSV becomes the body, with the attachment headers
SetAttachment ==
  /\ pc = "returned"
  /\ response' = [response EXCEPT !.kind = "csv", !.text = result.text,
                                  !.contentType = "application/octet-stream",
                                  !.disposition = Attachment(form.channel_id)]
  /\ pc' = "finally"
  /\ UNCHANGED <<job, net, exc, hist, inputs>>

\* lines 69-73: the handler reads form.html and formats it with the access token
\* and the message; reading or formatting can fail, which raises out of the handler
HandleException ==
  /\ pc = "except"
  /\ \E readable \in BOOLEAN, formats \in BOOLEAN :
       IF readable /\ formats /\ form.access_token # Absent
       THEN /\ response' = [response EXCEPT !.kind = "html",
                                            !.text = <<"form.html", form.access_token>>,
                                            !.message = ExcMessage(exc),
                                            !.contentType = "text/html"]
            /\ exc' = NoExc
       ELSE /\ exc' = [type |-> IF ~readable THEN "OSError" ELSE "KeyError",
                       code |-> 0, text |-> "form.html"]
            /\ UNCHANGED response
  /\ pc' = "finally"
  /\ UNCHANGED <<job, net, hist, inputs>>

\* FinallyReturn without the return: an exception being raised leaves do_post
FinallyPropagates ==
  /\ pc = "finally"
  /\ pc' = IF exc = NoExc THEN "responded" ELSE "raised"
  /\ UNCHANGED <<job, net, exc, response, hist, inputs>>

\* lines 74-75: finally: return response, which discards an exception being raised
FinallyReturn ==
  /\ pc = "finally"
  /\ exc' = NoExc
  /\ pc' = "responded"
  /\ UNCHANGED <<job, net, response, hist, inputs>>

Next ==
  \/ ExecuteJobStart
  \/ SendRequest
  \/ ApiRespond
  \/ ListCommentsOk
  \/ ListCommentsRaise
  \/ LoopStep
  \/ SetAttachment
  \/ HandleException
  \/ FinallyReturn

Spec == Init /\ [][Next]_vars

\* the program keeps running: a step that can be taken is taken
FairSpec == Spec /\ WF_vars(Next)

(***************************************************************************)
(* What the claims speak of.                                               *)
(***************************************************************************)
\* the record of one comment: the three quoted fields, the text escaped
RecordOf(c) ==
  RECORD_FORMAT(c.publishedAt, c.authorDisplayName, EscapeText(c.textOriginal))

\* the records of a list of comments, one after the other
RECURSIVE RecordsOf(_)
RecordsOf(cs) == IF cs = <<>> THEN <<>> ELSE RecordOf(Head(cs)) \o RecordsOf(Tail(cs))

\* how many times a character occurs in a text
RECURSIVE CountOf(_, _)
CountOf(ch, s) ==
  IF s = <<>> THEN 0 ELSE (IF Head(s) = ch THEN 1 ELSE 0) + CountOf(ch, Tail(s))

\* the last response was a 200 page that carried a nextPageToken
HasNextPage == lastPage.status = 200 /\ lastPage.next \in Tokens

\* execute_job is over: it returned or it raised
JobOver == pc \in {"returned", "except", "finally", "responded"}

\* do_post is over: it is at none of its steps any more
DoPostOver ==
  pc \notin {"do_post", "call", "wait", "recv", "loop", "returned", "except", "finally"}

Max(a, b) == IF a >= b THEN a ELSE b

(***************************************************************************)
(* C1: after a page was fetched, the loop stops and returns exactly when   *)
(* the page carried no nextPageToken or the records fetched so far exceed  *)
(* LIMIT; otherwise (also with exactly LIMIT records) it fetches again.    *)
(***************************************************************************)
C1_StopsExactlyWhen ==
  [][pc = "loop" =>
       /\ pc' \in {"returned", "call"}
       /\ (pc' = "returned") <=> (~HasNextPage \/ Len(received) > limit)
       /\ result'.returned <=> (pc' = "returned")
       /\ total_count' = Len(received)]_vars

\* the loop goes on with exactly LIMIT records fetched
C1_Witness ==
  /\ pc = "call"
  /\ HasNextPage
  /\ Len(received) = limit
  /\ Len(received) > 0

(***************************************************************************)
(* C2: what execute_job returns is the records of the comments of every    *)
(* page fetched, in the order fetched, nothing else, and as many as        *)
(* total_count.                                                            *)
(***************************************************************************)
C2_ReturnsAllRecordsInOrder ==
  result.returned =>
    /\ result.text = RecordsOf(received)
    /\ total_count = Len(received)

(***************************************************************************)
(* C3: the first request carries no pageToken, every later one the         *)
(* nextPageToken of the response just before it.                           *)
(***************************************************************************)
C3_FollowsPageToken ==
  inflight # <<>> =>
    IF lastPage = NoResp
    THEN inflight[1].pageToken = Absent
    ELSE HasNextPage /\ inflight[1].pageToken = lastPage.next

\* a later request, sent after a page with records
C3_Witness ==
  /\ inflight # <<>>
  /\ inflight[1].pageToken = "T2"
  /\ Len(received) > 0

(***************************************************************************)
(* C4: whatever the API answers, execute_job ends: it returns or raises.   *)
(***************************************************************************)
C4_JobEnds == <>JobOver

(***************************************************************************)
(* C5: one request at a time and no retry: at most one request or          *)
(* response is outstanding, a request is sent only when every page         *)
(* received is in the file, exactly once, and none after an error status.  *)
(***************************************************************************)
C5_OneAtATimeNoRetry ==
  /\ Len(inflight) + (IF resp = NoResp THEN 0 ELSE 1) <= 1
  /\ inflight # <<>> => fp = RecordsOf(received) /\ ~sawError
  /\ pc \in {"call", "wait", "loop"} => fp = RecordsOf(received)
  /\ sawError /\ resp = NoResp => pc \in {"except", "finally", "responded"}

\* the second request is out, the first page is in the file
C5_Witness ==
  /\ inflight # <<>>
  /\ lastPage.status = 200
  /\ Len(received) > 0
  /\ fp = RecordsOf(received)

(***************************************************************************)
(* C6: one comment, one line: the CSV returned has as many lines as        *)
(* comments were fetched.                                                  *)
(***************************************************************************)
C6_OneLinePerComment ==
  result.returned =>
    /\ CountOf(LF, result.text) = Len(received)
    /\ CountOf(CR, result.text) = 0

(***************************************************************************)
(* C7: on a 200 response list_comments returns the number of items it      *)
(* appended and the page's nextPageToken (None without one), and leaves    *)
(* what the file held before in place.                                     *)
(***************************************************************************)
C7_ReturnsCountAndToken ==
  pc = "loop" =>
    /\ ret.count = Len(lastPage.items)
    /\ ret.token = (IF lastPage.next = Absent THEN None ELSE lastPage.next)
    /\ fp = fpBefore \o RecordsOf(lastPage.items)

\* a page of MaxItems items appended to a file that held records already
C7_Witness ==
  /\ pc = "loop"
  /\ fpBefore # <<>>
  /\ ret.count = MaxItems
  /\ ret.token \in Tokens

(***************************************************************************)
(* C8: a status other than 200 raises APIException with the status and     *)
(* body, execute_job returns nothing, and do_post answers the form with    *)
(* Content-Type text/html and the error message, not an attachment.        *)
(***************************************************************************)
C8_ErrorAnswersForm ==
  /\ sawError /\ pc = "except" => exc = APIException(lastPage.status, lastPage.text)
  /\ sawError => ~result.returned
  /\ sawError /\ pc = "responded" =>
       /\ response.kind = "html"
       /\ response.contentType = "text/html"
       /\ response.message = ExcMessage(APIException(lastPage.status, lastPage.text))
       /\ response.disposition = Absent

(***************************************************************************)
(* C9, as stated: every request is sent with at most LIMIT records         *)
(* fetched, and what is returned without the last page is at most LIMIT.   *)
(***************************************************************************)
C9_AsStated ==
  /\ inflight # <<>> => total_count <= limit
  /\ result.returned => total_count - Len(lastPage.items) <= limit

(***************************************************************************)
(* C9, amended: every request after the first is sent with at most LIMIT   *)
(* records fetched, the first with none whatever LIMIT is; what is         *)
(* returned without the last page is at most LIMIT, or 0 for a negative    *)
(* LIMIT.                                                                  *)
(***************************************************************************)
C9_RequestsWithinLimit ==
  /\ inflight # <<>> /\ lastPage # NoResp => total_count <= limit /\ Len(received) <= limit
  /\ inflight # <<>> /\ lastPage = NoResp => total_count = 0
  /\ result.returned =>
       /\ total_count = Len(received)
       /\ total_count - Len(lastPage.items) <= Max(limit, 0)
       /\ total_count <= Max(limit, 0) + Len(lastPage.items)

\* LIMIT records were fetched and a full page more is returned
C9_Witness ==
  /\ result.returned
  /\ limit > 0
  /\ Len(lastPage.items) = MaxItems
  /\ total_count = limit + MaxItems

=============================================================================
